---- MODULE Spec2Model ----
(***************************************************************************)
(* TrackfusionClient (src/src/client.ts): the request executor with its    *)
(* retry loop, its abort signal and its error normalisation; buildQs; the  *)
(* facade methods that call the executor; and the tool handlers of         *)
(* src/src/index.ts that call the facade.                                  *)
(*                                                                         *)
(* Spec drives request() directly against a wide choice of answers;        *)
(* SpecQs applies buildQs to params objects; SpecFacade calls the facade   *)
(* methods and SpecTool the tools, against a smaller choice of answers.    *)
(* SpecConc has calls in flight on every slot at once; SpecSeq issues call *)
(* after call on one slot, and SpecLive is SpecSeq with the fairness of    *)
(* the network, the clock and the timers; SpecBoot runs the module body of *)
(* index.ts from the start of the process to the connected server.         *)
(*                                                                         *)
(* Texts (error messages, status texts, URLs) are sequences of tokens;     *)
(* String.prototype.includes is contiguous-subsequence search on them.     *)
(* Time is counted in milliseconds and advances in steps of TickMs.        *)
(***************************************************************************)
EXTENDS Integers, Sequences, FiniteSets, TLC

VARIABLES clientConfig, client, call, query, process

vars == <<clientConfig, client, call, query, process>>

(* ---------------- program constants (client.ts:8-10) ------------------- *)

DEFAULT_TIMEOUT_MS == 30000
RETRY_DELAY_MS == 2000
MAX_RETRIES_Raised == 1 + 1
MAX_RETRIES == 1

(* ---------------- bounds of the model ---------------------------------- *)

\* number of call slots of the client; a slot is reused by the next call
NumSlots == 2

Slots == 1..NumSlots

\* granularity of the clock
TickMs == RETRY_DELAY_MS \div 2

\* a call is followed tick by tick for MaxTicks ticks of its signal; past
\* that, time moves from one timer expiry to the next
MaxTicks == 3

\* values of config.timeoutMs tried by the constructor; Undefined = omitted
Undefined == 0 - 1
TimeoutChoices == {Undefined, 1000, 3000}

(* ---------------- texts ------------------------------------------------ *)

\* String.prototype.includes on token sequences
Includes(msg, pat) ==
    \E i \in 0..(Len(msg) - Len(pat)) : SubSeq(msg, i + 1, i + Len(pat)) = pat

FETCH_FAILED == <<"fetch", "failed">>
ECONNREFUSED == <<"ECONNREFUSED">>

\* an Error object: its name and its message
Err(name, message) == [name |-> name, message |-> message]

\* the value of `lastError` while it is still undefined
NoError == Err("", <<>>)

\* a rejection value that is not an Error (a string): it has no name
NonError(text) == [name |-> "", message |-> text]

\* err instanceof Error ? err : new Error(String(err))
AsError(err) == IF err.name = "" THEN Err("Error", err.message) ELSE err

(* ---------------- objects ---------------------------------------------- *)

\* an object is the sequence of its entries <<key, value>>, in insertion
\* order, with no key twice
Keys(o) == { o[i][1] : i \in DOMAIN o }
Get(o, k) == LET i == CHOOSE j \in DOMAIN o : o[j][1] = k IN o[i][2]

\* { ...a, ...b }: an entry of b replaces the entry of a under the same key,
\* in its place; the other entries of b follow
Spread_KeepFirst(a, b) ==
    a \o SelectSeq(b, LAMBDA e : e[1] \notin Keys(a))
Spread(a, b) ==
    [i \in DOMAIN a |-> IF a[i][1] \in Keys(b) THEN <<a[i][1], Get(b, a[i][1])>> ELSE a[i]]
      \o SelectSeq(b, LAMBDA e : e[1] \notin Keys(a))

(* ---------------- JavaScript values ------------------------------------ *)

\* a value an argument or a property can hold: its type and the text that
\* String(v) gives, a sequence of tokens
JsUndefined == [type |-> "undefined", text |-> <<"undefined">>]
JsNull == [type |-> "null", text |-> <<"null">>]
Str(t) == [type |-> "string", text |-> t]
Num(t) == [type |-> "number", text |-> t]
Bool(t) == [type |-> "boolean", text |-> t]

\* what `v ? a : b` and `v || b` test
Truthy(v) ==
    /\ v.type \notin {"undefined", "null"}
    /\ v # Str(<<>>)
    /\ v # Num(<<"0">>)
    /\ v # Bool(<<"false">>)

String(v) == v.text

\* encodeURIComponent: a reserved character becomes its escape; a token is
\* one reserved character or a run of unreserved ones
EscapeOf(t) ==
    CASE t = " " -> "%20"
      [] t = "&" -> "%26"
      [] t = "=" -> "%3D"
      [] t = "?" -> "%3F"
      [] t = "/" -> "%2F"
      [] OTHER -> t
encodeURIComponent(text) == [i \in DOMAIN text |-> EscapeOf(text[i])]

\* Array.prototype.join on an array of texts
RECURSIVE Join(_, _)
Join(parts, sep) ==
    IF Len(parts) = 0 THEN <<>>
    ELSE IF Len(parts) = 1 THEN parts[1]
    ELSE parts[1] \o sep \o Join(Tail(parts), sep)

\* JSON.stringify of an object of primitives: a property whose value is
\* undefined is left out, null is written as null, a string is quoted
JsonValue(v) == IF v.type = "string" THEN <<"\"">> \o v.text \o <<"\"">> ELSE v.text
JsonEntry(e) == <<"\"", e[1], "\"", ":">> \o JsonValue(e[2])
Serialized_NullDropped(e) == e[2].type \notin {"undefined", "null"}
Serialized(e) == e[2] # JsUndefined
JSON_stringify(input) ==
    LET kept == SelectSeq(input, Serialized)
    IN  <<"{">> \o Join([i \in DOMAIN kept |-> JsonEntry(kept[i])], <<",">>) \o <<"}">>

\* the keys a JSON text of JSON_stringify holds, and whether it holds k: null
HasKey(json, k) == Includes(json, <<"\"", k, "\"", ":">>)
HasNull(json, k) ==
    \/ Includes(json, <<"\"", k, "\"", ":", "null", ",">>)
    \/ Includes(json, <<"\"", k, "\"", ":", "null", "}">>)

(* ---------------- buildQs (client.ts:612-616) -------------------------- *)

\* filter(([, v]) => v !== undefined)
Defined_Truthy(e) == Truthy(e[2])
Defined(e) == e[2] # JsUndefined

\* `${k}=${encodeURIComponent(String(v))}`
QsEntry(e) == <<e[1], "=">> \o encodeURIComponent(String(e[2]))

buildQs(params) ==
    LET entries == SelectSeq(params, Defined)
    IN  IF Len(entries) = 0 THEN <<>>
        ELSE <<"?">> \o Join([i \in DOMAIN entries |-> QsEntry(entries[i])], <<"&">>)

\* opts || {}
Obj(entries) == [type |-> "object", text |-> <<"[object", "Object]">>, entries |-> entries]
OrEmpty(opts) == IF opts.type = "object" THEN opts.entries ELSE <<>>

(* ---------------- what the network can answer -------------------------- *)

Statuses == {200, 204, 401, 500, 503}
StatusTexts == {<<"OK">>, <<"Error">>}

ErrorTexts == { <<>>,
                <<"Invalid", "API", "key">>,
                <<"connect", "ECONNREFUSED", "db:5432">> }
Payloads == {"d1", "d2"}

\* a response body: one that res.json() rejects (no JSON text, or a read
\* that fails), or a JSON object with an optional `error` field and a
\* payload
\* `data` names the parsed body as a whole; `key` and `value` are the one
\* other field the object holds (key "" when it holds none)
Unparseable ==
    [parses |-> FALSE, hasError |-> FALSE, error |-> <<>>, data |-> "", key |-> "", value |-> ""]
EmptyObject ==
    [parses |-> TRUE, hasError |-> FALSE, error |-> <<>>, data |-> "", key |-> "", value |-> ""]
Payload(d, k, v) ==
    [parses |-> TRUE, hasError |-> FALSE, error |-> <<>>, data |-> d, key |-> k, value |-> v]
ErrorBody(e) ==
    [parses |-> TRUE, hasError |-> TRUE, error |-> e, data |-> "", key |-> "", value |-> ""]
Bodies ==
    {Unparseable}
      \cup { Payload(d, "", "") : d \in Payloads }
      \cup { ErrorBody(e) : e \in ErrorTexts }

Responses == [status : Statuses, statusText : StatusTexts, body : Bodies]

\* rejections of fetch() that are not caused by the abort signal
TransportFailures ==
    { Err("TypeError", <<"fetch", "failed">>),
      Err("FetchError", <<"connect", "ECONNREFUSED", "127.0.0.1:443">>),
      Err("Error", <<"getaddrinfo", "ENOTFOUND", "x">>),
      Err("TypeError", <<"Failed", "to", "fetch">>),
      NonError(<<"socket", "hang", "up">>) }

\* the reason fetch() rejects with when AbortSignal.timeout fires: a
\* DOMException named TimeoutError, or AbortError on older runtimes
AbortReasons ==
    { Err("TimeoutError", <<"The", "operation", "was", "aborted", "due", "to", "timeout">>),
      Err("AbortError", <<"This", "operation", "was", "aborted">>) }

\* what res.json() rejects with on a body that is not JSON
ParseError == Err("SyntaxError", <<"Unexpected", "end", "of", "JSON", "input">>)

(* ---------------- constructor (client.ts:558-562) ---------------------- *)

ApiKeys == {"tf_test_key"}
BaseUrls == { <<"https://x">>, <<"https://x", "/">> }
Configs == [apiKey : ApiKeys, baseUrl : BaseUrls, timeoutMs : TimeoutChoices]

\* baseUrl.replace(/\/$/, ''): one trailing slash is removed
StripTrailingSlash_Kept(u) == u
StripTrailingSlash(u) ==
    IF Len(u) > 0 /\ u[Len(u)] = "/" THEN SubSeq(u, 1, Len(u) - 1) ELSE u

Constructor(config) ==
    [ apiKey    |-> config.apiKey,
      baseUrl   |-> StripTrailingSlash(config.baseUrl),
      timeoutMs |-> IF config.timeoutMs = Undefined
                      THEN DEFAULT_TIMEOUT_MS ELSE config.timeoutMs ]

(* ---------------- one call of request() -------------------------------- *)

Paths == { <<"/tasks/", "t1">> }
Methods == {"GET", "PATCH"}

\* options.body: undefined, or a JSON text
NoBody == <<>>

\* options.headers of the callers of request(): none, a replacement of an
\* injected header, a header of another name
CallerHeaders ==
    { <<>>,
      << <<"Authorization", <<"Basic", "abc">> >>, <<"X-Trace", <<"1">> >> >>,
      << <<"Content-Type", <<"text/plain">> >> >> }

Options(method, headers, body) == [method |-> method, headers |-> headers, body |-> body]

\* `options: RequestInit = {}`
NoOptions == Options("", <<>>, NoBody)

RequestOptions ==
    { Options("GET", h, NoBody) : h \in CallerHeaders }
      \cup { Options("PATCH", <<>>, <<"{", "}">>) }

\* headers: { 'Authorization': `Bearer ${this.apiKey}`,
\*            'Content-Type': 'application/json', ...options.headers }
InjectedHeaders(apiKey) ==
    << <<"Authorization", <<"Bearer", apiKey>> >>,
       <<"Content-Type", <<"application/json">> >> >>

NoResult == [kind |-> "none", data |-> "", error |-> NoError]
Returned(d) == [kind |-> "ok", data |-> d, error |-> NoError]
Thrown(e) == [kind |-> "err", data |-> "", error |-> e]

\* how an attempt ended, kept for the properties: a response, a rejection
\* of fetch(), or the abort of the signal; `budget` is the time the signal
\* left the attempt when it started
NoResponse == [status |-> 0, statusText |-> <<>>, body |-> Unparseable]
Responded(res, t) == [kind |-> "response", res |-> res, err |-> NoError, budget |-> t]
Rejected(e, t) == [kind |-> "reject", res |-> NoResponse, err |-> e, budget |-> t]
Aborted(e, t) == [kind |-> "abort", res |-> NoResponse, err |-> e, budget |-> t]

(* ---------------- the facade methods (client.ts:618-919) --------------- *)

\* what a method does with the resolved value of request(): returns one
\* field of it (`return data.f`), returns it as it is (`return
\* this.request(...)`), or drops it (`await this.request(...)`)
Field(name) == [kind |-> "field", name |-> name]
WholeBody == [kind |-> "body", name |-> ""]
Void == [kind |-> "void", name |-> ""]

\* a direct call of request() has no method around it
NoReturn == [kind |-> "none", name |-> ""]

\* the call of request() a method makes and what it returns from it
Plan(path, options, returns) == [path |-> path, options |-> options, returns |-> returns]

\* { method: m, body: JSON.stringify(input) } and { method: 'DELETE' }
WithBody(m, input) == Options(m, <<>>, JSON_stringify(input))
Delete == Options("DELETE", <<>>, NoBody)

listProjects(includeArchived) ==
    LET given == IF includeArchived = JsUndefined THEN Bool(<<"false">>) ELSE includeArchived
        qs == IF Truthy(given) THEN <<"?", "includeArchived", "=", "true">> ELSE <<>>
    IN  Plan(<<"/projects">> \o qs, NoOptions, Field("projects"))

listTasks(projectId, status) ==
    LET qs == IF Truthy(status)
                THEN <<"?", "status", "=">> \o encodeURIComponent(String(status))
                ELSE <<>>
    IN  Plan(<<"/projects/", projectId, "/tasks">> \o qs, NoOptions, Field("tasks"))

getTask(taskId) == Plan(<<"/tasks/", taskId>>, NoOptions, Field("task"))

createTask_Defaulted(projectId, input) ==
    Plan(<<"/projects/", projectId, "/tasks">>,
         WithBody("POST", Spread(<< <<"status", Str(<<"todo">>)>> >>, input)), Field("task"))

createTask(projectId, input) ==
    Plan(<<"/projects/", projectId, "/tasks">>, WithBody("POST", input), Field("task"))

updateTask(taskId, input) ==
    Plan(<<"/tasks/", taskId>>, WithBody("PATCH", input), Field("task"))

listHabits(active) ==
    LET qs == IF active # JsUndefined THEN <<"?", "active", "=">> \o String(active) ELSE <<>>
    IN  Plan(<<"/habits">> \o qs, NoOptions, Field("habits"))

createHabit(input) == Plan(<<"/habits">>, WithBody("POST", input), Field("habit"))

updateHabit(habitId, input) ==
    Plan(<<"/habits/", habitId>>, WithBody("PATCH", input), Field("habit"))

listHabitEntries(habitId, from, to) ==
    LET qs == buildQs(<< <<"from", from>>, <<"to", to>> >>)
    IN  Plan(<<"/habits/", habitId, "/entries">> \o qs, NoOptions, Field("entries"))

toggleHabitEntry(habitId, date) ==
    Plan(<<"/habits/", habitId, "/entries">>,
         WithBody("POST", << <<"date", date>> >>), WholeBody)

getHabitAnalytics(habitId) ==
    Plan(<<"/habits/", habitId, "/analytics">>, NoOptions, Field("analytics"))

listItems(status, categoryId) ==
    LET qs == buildQs(<< <<"status", status>>, <<"categoryId", categoryId>> >>)
    IN  Plan(<<"/items">> \o qs, NoOptions, Field("items"))

createItem(input) == Plan(<<"/items">>, WithBody("POST", input), Field("item"))

updateItem(itemId, input) ==
    Plan(<<"/items/", itemId>>, WithBody("PATCH", input), Field("item"))

deleteItem(itemId) == Plan(<<"/items/", itemId>>, Delete, Void)

listItemCategories == Plan(<<"/item-categories">>, NoOptions, Field("categories"))

listJournalEntries(from, to, limit) ==
    LET qs == buildQs(<< <<"from", from>>, <<"to", to>>, <<"limit", limit>> >>)
    IN  Plan(<<"/journal-entries">> \o qs, NoOptions, Field("entries"))

createJournalEntry(input) ==
    Plan(<<"/journal-entries">>, WithBody("POST", input), Field("entry"))

getDayEntry(dateString) ==
    Plan(<<"/day-entries/", dateString>>, NoOptions, Field("dayEntry"))

listJournalTodos(completed) ==
    LET qs == IF completed # JsUndefined
                THEN <<"?", "completed", "=">> \o String(completed)
                ELSE <<>>
    IN  Plan(<<"/journal-todos">> \o qs, NoOptions, Field("todos"))

createJournalTodo(input) ==
    Plan(<<"/journal-todos">>, WithBody("POST", input), Field("todo"))

updateJournalTodo(todoId, input) ==
    Plan(<<"/journal-todos/", todoId>>, WithBody("PATCH", input), Field("todo"))

listSpendings(opts) ==
    LET qs == buildQs(OrEmpty(opts))
    IN  Plan(<<"/spendings">> \o qs, NoOptions, Field("spendings"))

createSpending(input) == Plan(<<"/spendings">>, WithBody("POST", input), Field("spending"))

updateSpending(spendingId, input) ==
    Plan(<<"/spendings/", spendingId>>, WithBody("PATCH", input), Field("spending"))

deleteSpending(spendingId) == Plan(<<"/spendings/", spendingId>>, Delete, Void)

listIncomes(from, to) ==
    LET qs == buildQs(<< <<"from", from>>, <<"to", to>> >>)
    IN  Plan(<<"/incomes">> \o qs, NoOptions, Field("incomes"))

createIncome(input) == Plan(<<"/incomes">>, WithBody("POST", input), Field("income"))

listSpendingCategories ==
    Plan(<<"/spending-categories">>, NoOptions, Field("categories"))

listSpendingSources == Plan(<<"/spending-sources">>, NoOptions, Field("sources"))

getSpendingAnalytics(yearMonth) ==
    Plan(<<"/spending-analytics/", yearMonth>>, NoOptions, Field("analytics"))

listPeople(opts) ==
    LET qs == buildQs(OrEmpty(opts))
    IN  Plan(<<"/people">> \o qs, NoOptions, Field("people"))

createPerson(input) == Plan(<<"/people">>, WithBody("POST", input), Field("person"))

updatePerson(personId, input) ==
    Plan(<<"/people/", personId>>, WithBody("PATCH", input), Field("person"))

addInteraction(personId, input) ==
    Plan(<<"/people/", personId, "/interactions">>,
         WithBody("POST", input), Field("interaction"))

listWorkoutSessions(from, to, limit) ==
    LET qs == buildQs(<< <<"from", from>>, <<"to", to>>, <<"limit", limit>> >>)
    IN  Plan(<<"/workout-sessions">> \o qs, NoOptions, Field("sessions"))

createWorkoutSession(input) ==
    Plan(<<"/workout-sessions">>, WithBody("POST", input), Field("session"))

listWorkoutTemplates == Plan(<<"/workout-templates">>, NoOptions, Field("templates"))

listExerciseDefinitions ==
    Plan(<<"/exercise-definitions">>, NoOptions, Field("exercises"))

getPersonalRecords(exerciseId) ==
    LET qs == IF Truthy(exerciseId)
                THEN <<"?", "exerciseId", "=">> \o encodeURIComponent(String(exerciseId))
                ELSE <<>>
    IN  Plan(<<"/personal-records">> \o qs, NoOptions, Field("records"))

listBodyMeasurements(from, to) ==
    LET qs == buildQs(<< <<"from", from>>, <<"to", to>> >>)
    IN  Plan(<<"/body-measurements">> \o qs, NoOptions, Field("measurements"))

listInvestmentTransactions(opts) ==
    LET qs == buildQs(OrEmpty(opts))
    IN  Plan(<<"/investment-transactions">> \o qs, NoOptions, Field("transactions"))

listAssets(assetType, search) ==
    LET qs == buildQs(<< <<"assetType", assetType>>, <<"search", search>> >>)
    IN  Plan(<<"/assets">> \o qs, NoOptions, Field("assets"))

getAssetPriceHistory(assetId, from, to, limit) ==
    LET qs == buildQs(<< <<"from", from>>, <<"to", to>>, <<"limit", limit>> >>)
    IN  Plan(<<"/assets/", assetId, "/price-history">> \o qs, NoOptions, WholeBody)

getPortfolioSummary == Plan(<<"/portfolio-summary">>, NoOptions, WholeBody)

(* ---------------- calls of the facade methods -------------------------- *)

\* an argument object (opts, input), or undefined where the parameter is
\* optional
NoObj == [type |-> "undefined", text |-> <<"undefined">>, entries |-> <<>>]

\* a call of a method: its name, its id argument, its optional scalar
\* arguments in order, and its object argument
Invocation(op, id, a, o) == [op |-> op, id |-> id, a |-> a, o |-> o]
NoInvocation == Invocation("", "", <<>>, NoObj)

NoArgs == <<JsUndefined, JsUndefined, JsUndefined>>

Ids == {"id1"}
StringArgs == {JsUndefined, Str(<<>>), Str(<<"a", "&", "b">>)}
BoolArgs == {JsUndefined, Bool(<<"false">>), Bool(<<"true">>)}
NumArgs == {JsUndefined, Num(<<"0">>)}

\* the objects with the entries of o whose value is not Absent; Absent
\* marks a key the caller did not write down
Absent == [type |-> "absent", text |-> <<>>]
Written(o) == SelectSeq(o, LAMBDA e : e[2] # Absent)

\* opts of the list methods: undefined, {}, or two of its keys
OptsArgs(k1, k2) ==
    {NoObj, Obj(<<>>)}
      \cup { Obj(<< <<k1, v>>, <<k2, n>> >>) : v \in StringArgs, n \in NumArgs }

\* input of the create methods: a required key and an optional one
CreateInputs(k1, k2) ==
    { Obj(Written(<< <<k1, Str(<<"T">>)>>, <<k2, v>> >>)) :
        v \in {Absent, JsUndefined, Str(<<"v">>)} }

\* input of the update methods: an optional key and an optional, nullable one
UpdateInputs(k1, k2) ==
    { Obj(Written(<< <<k1, v>>, <<k2, w>> >>)) :
        v \in {Absent, JsUndefined, Str(<<"T">>)},
        w \in {Absent, JsUndefined, JsNull, Str(<<"2026-01-01">>)} }

One(op, vs) == { Invocation(op, "", <<v, JsUndefined, JsUndefined>>, NoObj) : v \in vs }
Two(op, vs, ws) ==
    { Invocation(op, "", <<v, w, JsUndefined>>, NoObj) : v \in vs, w \in ws }
Three(op, vs, ws, xs) ==
    { Invocation(op, "", <<v, w, x>>, NoObj) : v \in vs, w \in ws, x \in xs }
ById(op) == { Invocation(op, id, NoArgs, NoObj) : id \in Ids }
Plain(op) == { Invocation(op, "", NoArgs, NoObj) }
WithObj(op, os) == { Invocation(op, "", NoArgs, o) : o \in os }
ByIdWithObj(op, os) == { Invocation(op, id, NoArgs, o) : id \in Ids, o \in os }

ListInvocations ==
    One("listProjects", BoolArgs)
      \cup { Invocation("listTasks", id, <<v, JsUndefined, JsUndefined>>, NoObj) :
               id \in Ids, v \in StringArgs }
      \cup One("listHabits", BoolArgs)
      \cup { Invocation("listHabitEntries", id, <<v, w, JsUndefined>>, NoObj) :
               id \in Ids, v \in StringArgs, w \in StringArgs }
      \cup Two("listItems", StringArgs, StringArgs)
      \cup Plain("listItemCategories")
      \cup Three("listJournalEntries", StringArgs, StringArgs, NumArgs)
      \cup One("listJournalTodos", BoolArgs)
      \cup WithObj("listSpendings", OptsArgs("from", "limit"))
      \cup Two("listIncomes", StringArgs, StringArgs)
      \cup Plain("listSpendingCategories")
      \cup Plain("listSpendingSources")
      \cup WithObj("listPeople", OptsArgs("search", "archived"))
      \cup Three("listWorkoutSessions", StringArgs, StringArgs, NumArgs)
      \cup Plain("listWorkoutTemplates")
      \cup Plain("listExerciseDefinitions")
      \cup One("getPersonalRecords", StringArgs)
      \cup Two("listBodyMeasurements", StringArgs, StringArgs)
      \cup WithObj("listInvestmentTransactions", OptsArgs("assetType", "limit"))
      \cup Two("listAssets", StringArgs, StringArgs)

GetInvocations ==
    ById("getTask") \cup ById("getHabitAnalytics") \cup ById("getDayEntry")
      \cup ById("getSpendingAnalytics")

CreateInvocations ==
    ByIdWithObj("createTask", CreateInputs("title", "dueDate"))
      \cup WithObj("createHabit", CreateInputs("name", "emoji"))
      \cup WithObj("createItem", CreateInputs("name", "notes"))
      \cup WithObj("createJournalEntry", CreateInputs("title", "mood"))
      \cup WithObj("createJournalTodo", CreateInputs("title", "dueDate"))
      \cup WithObj("createSpending", CreateInputs("description", "date"))
      \cup WithObj("createIncome", CreateInputs("name", "description"))
      \cup WithObj("createPerson", CreateInputs("name", "nickname"))
      \cup ByIdWithObj("addInteraction", CreateInputs("note", "sentiment"))
      \cup WithObj("createWorkoutSession", CreateInputs("date", "name"))

UpdateInvocations ==
    ByIdWithObj("updateTask", UpdateInputs("title", "dueDate"))
      \cup ByIdWithObj("updateHabit", UpdateInputs("name", "endDate"))
      \cup ByIdWithObj("updateItem", UpdateInputs("name", "replacementDate"))
      \cup ByIdWithObj("updateJournalTodo", UpdateInputs("title", "dueDate"))
      \cup ByIdWithObj("updateSpending", CreateInputs("description", "date"))
      \cup ByIdWithObj("updatePerson", UpdateInputs("name", "birthday"))

DeleteInvocations == ById("deleteItem") \cup ById("deleteSpending")

\* the methods that hand on the resolved value of request() as it is
BareInvocations ==
    { Invocation("toggleHabitEntry", id, <<Str(<<"2026-01-01">>), JsUndefined, JsUndefined>>,
                 NoObj) : id \in Ids }
      \cup { Invocation("getAssetPriceHistory", id, <<v, w, x>>, NoObj) :
               id \in Ids, v \in StringArgs, w \in {JsUndefined}, x \in NumArgs }
      \cup Plain("getPortfolioSummary")

Invocations ==
    ListInvocations \cup GetInvocations \cup CreateInvocations \cup UpdateInvocations
      \cup DeleteInvocations \cup BareInvocations

\* the method of TrackfusionClient that an invocation names, applied to
\* its arguments
Facade(inv) ==
    LET id == inv.id
        a == inv.a
        o == inv.o
        input == inv.o.entries
    IN  CASE inv.op = "listProjects" -> listProjects(a[1])
          [] inv.op = "listTasks" -> listTasks(id, a[1])
          [] inv.op = "getTask" -> getTask(id)
          [] inv.op = "createTask" -> createTask(id, input)
          [] inv.op = "updateTask" -> updateTask(id, input)
          [] inv.op = "listHabits" -> listHabits(a[1])
          [] inv.op = "createHabit" -> createHabit(input)
          [] inv.op = "updateHabit" -> updateHabit(id, input)
          [] inv.op = "listHabitEntries" -> listHabitEntries(id, a[1], a[2])
          [] inv.op = "toggleHabitEntry" -> toggleHabitEntry(id, a[1])
          [] inv.op = "getHabitAnalytics" -> getHabitAnalytics(id)
          [] inv.op = "listItems" -> listItems(a[1], a[2])
          [] inv.op = "createItem" -> createItem(input)
          [] inv.op = "updateItem" -> updateItem(id, input)
          [] inv.op = "deleteItem" -> deleteItem(id)
          [] inv.op = "listItemCategories" -> listItemCategories
          [] inv.op = "listJournalEntries" -> listJournalEntries(a[1], a[2], a[3])
          [] inv.op = "createJournalEntry" -> createJournalEntry(input)
          [] inv.op = "getDayEntry" -> getDayEntry(id)
          [] inv.op = "listJournalTodos" -> listJournalTodos(a[1])
          [] inv.op = "createJournalTodo" -> createJournalTodo(input)
          [] inv.op = "updateJournalTodo" -> updateJournalTodo(id, input)
          [] inv.op = "listSpendings" -> listSpendings(o)
          [] inv.op = "createSpending" -> createSpending(input)
          [] inv.op = "updateSpending" -> updateSpending(id, input)
          [] inv.op = "deleteSpending" -> deleteSpending(id)
          [] inv.op = "listIncomes" -> listIncomes(a[1], a[2])
          [] inv.op = "createIncome" -> createIncome(input)
          [] inv.op = "listSpendingCategories" -> listSpendingCategories
          [] inv.op = "listSpendingSources" -> listSpendingSources
          [] inv.op = "getSpendingAnalytics" -> getSpendingAnalytics(id)
          [] inv.op = "listPeople" -> listPeople(o)
          [] inv.op = "createPerson" -> createPerson(input)
          [] inv.op = "updatePerson" -> updatePerson(id, input)
          [] inv.op = "addInteraction" -> addInteraction(id, input)
          [] inv.op = "listWorkoutSessions" -> listWorkoutSessions(a[1], a[2], a[3])
          [] inv.op = "createWorkoutSession" -> createWorkoutSession(input)
          [] inv.op = "listWorkoutTemplates" -> listWorkoutTemplates
          [] inv.op = "listExerciseDefinitions" -> listExerciseDefinitions
          [] inv.op = "getPersonalRecords" -> getPersonalRecords(a[1])
          [] inv.op = "listBodyMeasurements" -> listBodyMeasurements(a[1], a[2])
          [] inv.op = "listInvestmentTransactions" -> listInvestmentTransactions(o)
          [] inv.op = "listAssets" -> listAssets(a[1], a[2])
          [] inv.op = "getAssetPriceHistory" -> getAssetPriceHistory(id, a[1], a[2], a[3])
          [] inv.op = "getPortfolioSummary" -> getPortfolioSummary

\* the value of a resolved promise that carries no data
JS_UNDEFINED == "undefined"
JS_NULL == "null"

\* the body `null`: valid JSON that is not an object
NullBody == Payload(JS_NULL, "", "")

\* data.f: the value under f, undefined when the object has no f, a
\* TypeError when data is null
CannotRead(f) == Err("TypeError", <<"Cannot", "read", "properties", "of", "null", "(reading", f \o ")">>)
ReadField(parsed, f) ==
    IF parsed = NullBody THEN Thrown(CannotRead(f))
    ELSE IF parsed.key = f THEN Returned(parsed.value)
    ELSE Returned(JS_UNDEFINED)

\* the rest of the method once request() has settled: a rejection passes
\* through `await` and `return` unchanged
FacadeReturn_Envelope(returns, result, parsed) ==
    IF returns.kind = "void" /\ result.kind = "ok" THEN Returned(JS_UNDEFINED) ELSE result
FacadeReturn_Wrapped(returns, result, parsed) ==
    IF result.kind = "err"
      THEN Thrown(Err("Error", <<"Request", "failed:">> \o result.error.message))
    ELSE IF returns.kind = "field" THEN ReadField(parsed, returns.name)
    ELSE IF returns.kind = "void" THEN Returned(JS_UNDEFINED)
    ELSE result
FacadeReturn(returns, result, parsed) ==
    IF result.kind = "err" THEN result
    ELSE IF returns.kind = "field" THEN ReadField(parsed, returns.name)
    ELSE IF returns.kind = "void" THEN Returned(JS_UNDEFINED)
    ELSE result

(* ---------------- the tool handlers (index.ts:214-1171) ---------------- *)

\* how a handler ends for the host: a returned result with its text and
\* its isError flag, or an exception
ToolReturned(isError, t) == [kind |-> "returned", isError |-> isError, text |-> t]
ToolThrew(err) == [kind |-> "threw", isError |-> FALSE, text |-> err.message]
NoToolResult == [kind |-> "none", isError |-> FALSE, text |-> <<>>]

\* errText(err): msg is err.message, or String(err) for a non-Error
errText(err) == ToolReturned(TRUE, <<"Error:">> \o err.message)

\* text(t): no isError property
text(t) == ToolReturned(FALSE, t)

\* a value of the API: "v1" has every field its type declares, "v0" is an
\* object without them
VALUE == "v1"
HOLLOW == "v0"

\* the formatting code of a handler ends with a text or throws
Rendered(t) == [ok |-> TRUE, text |-> t, error |-> NoError]
RenderFailed(message) == [ok |-> FALSE, text |-> <<>>, error |-> Err("TypeError", message)]

\* v.f where v is null or undefined
NoProperty(v, f) == <<"Cannot", "read", "properties", "of", v, "(reading", f \o ")">>

\* projects.map(...), tasks.map(...): v has to be an array
RenderList(v) ==
    IF v \in {JS_NULL, JS_UNDEFINED} THEN RenderFailed(NoProperty(v, "map"))
    ELSE IF v = VALUE THEN Rendered(<<"-", v>>)
    ELSE RenderFailed(<<"map", "is", "not", "a", "function">>)

\* `... ${task.title} ...`: v has to be an object
RenderFields(v, label) ==
    IF v \in {JS_NULL, JS_UNDEFINED} THEN RenderFailed(NoProperty(v, "title"))
    ELSE Rendered(label \o <<v>>)

\* t.tags.length > 0 ...: v has to be an object with its array fields
RenderDetails(v, f) ==
    IF v \in {JS_NULL, JS_UNDEFINED} THEN RenderFailed(NoProperty(v, f))
    ELSE IF v = VALUE THEN Rendered(<<v>>)
    ELSE RenderFailed(NoProperty(JS_UNDEFINED, "length"))

\* a ?? b
Nullish(a, b) == IF a.type \in {"undefined", "null"} THEN b ELSE a

\* the property k of the arguments the host passed, undefined when absent
Arg(args, k) == IF k \in Keys(args) THEN Get(args, k) ELSE JsUndefined

\* { k1, k2, ... }: every key is written, undefined values included
Literal(args, ks) == [i \in DOMAIN ks |-> <<ks[i], Arg(args, ks[i])>>]

\* if (k !== undefined) updates.k = k, for each k in turn
Updates(args, ks) == SelectSeq(Literal(args, ks), LAMBDA e : e[2] # JsUndefined)

TaskKeys == <<"title", "description", "status", "priority", "dueDate">>

\* ({ id, ...input }) => ...: input holds the arguments the host passed,
\* but for the id
Rest(args) == args

\* update_person: each of the seven fields is copied when it is not
\* undefined; linkedFriendUserId, when not undefined, is written with null
\* replaced by '', together with linkedFriendName and linkedFriendEmail
PersonKeys ==
    <<"name", "nickname", "description", "birthday", "location", "priority", "isArchived">>
PersonUpdates(args) ==
    LET link == Arg(args, "linkedFriendUserId")
    IN  Updates(args, PersonKeys)
          \o (IF link # JsUndefined
                THEN << <<"linkedFriendUserId", IF link = JsNull THEN Str(<<>>) ELSE link>>,
                        <<"linkedFriendName", Arg(args, "linkedFriendName")>>,
                        <<"linkedFriendEmail", Arg(args, "linkedFriendEmail")>> >>
                ELSE <<>>)

\* the calls of the tools by the host: the tool, its id argument and its
\* other arguments
ToolCall(name, id, args) == [name |-> name, id |-> id, args |-> args]
NoToolCall == ToolCall("", "", <<>>)

ToolCalls ==
    { ToolCall("list_projects", "", a) :
        a \in { <<>>, << <<"includeArchived", Bool(<<"true">>)>> >>,
                << <<"includeArchived", Bool(<<"false">>)>> >> } }
      \cup { ToolCall("list_tasks", id, a) :
               id \in Ids, a \in { <<>>, << <<"status", Str(<<"todo">>)>> >> } }
      \cup { ToolCall("get_task", id, <<>>) : id \in Ids }
      \cup { ToolCall("create_task", id, a) :
               id \in Ids,
               a \in { << <<"title", Str(<<"T">>)>> >>,
                       << <<"title", Str(<<"T">>)>>, <<"dueDate", Str(<<"2026-01-01">>)>> >> } }
      \cup { ToolCall("update_task", id, Written(<< <<"title", v>>, <<"dueDate", w>> >>)) :
               id \in Ids,
               v \in {Absent, Str(<<"T">>)},
               w \in {Absent, JsNull, Str(<<"2026-01-01">>)} }
      \cup { ToolCall("update_habit", id, Written(<< <<"name", v>>, <<"endDate", w>> >>)) :
               id \in Ids,
               v \in {Absent, Str(<<"T">>)},
               w \in {Absent, JsNull, Str(<<"2026-01-01">>)} }
      \cup { ToolCall("update_item", id,
                       Written(<< <<"name", v>>, <<"replacementDate", w>> >>)) :
               id \in Ids,
               v \in {Absent, Str(<<"T">>)},
               w \in {Absent, JsNull, Str(<<"2026-01-01">>)} }
      \cup { ToolCall("toggle_journal_todo", id,
                       Written(<< <<"isCompleted", v>>, <<"dueDate", w>> >>)) :
               id \in Ids,
               v \in {Absent, Bool(<<"true">>)},
               w \in {Absent, JsNull, Str(<<"2026-01-01">>)} }
      \cup { ToolCall("update_person", id,
                       Written(<< <<"birthday", v>>, <<"linkedFriendUserId", w>>,
                                  <<"linkedFriendName", x>> >>)) :
               id \in Ids,
               v \in {Absent, JsNull, Str(<<"2026-01-01">>)},
               w \in {Absent, JsNull, Str(<<"u1">>)},
               x \in {Absent, Str(<<"Bob">>)} }
      \cup { ToolCall("delete_item", id, <<>>) : id \in Ids }
      \cup { ToolCall("get_day_entry", id, <<>>) : id \in Ids }
      \cup { ToolCall("get_portfolio_summary", "", <<>>) }

\* the one call of the client a handler makes
ClientCall(t) ==
    CASE t.name = "list_projects" ->
           Invocation("listProjects", "",
                      <<Nullish(Arg(t.args, "includeArchived"), Bool(<<"false">>)),
                        JsUndefined, JsUndefined>>, NoObj)
      [] t.name = "list_tasks" ->
           Invocation("listTasks", t.id,
                      <<Arg(t.args, "status"), JsUndefined, JsUndefined>>, NoObj)
      [] t.name = "get_task" -> Invocation("getTask", t.id, NoArgs, NoObj)
      [] t.name = "create_task" ->
           Invocation("createTask", t.id, NoArgs, Obj(Literal(t.args, TaskKeys)))
      [] t.name = "update_task" ->
           Invocation("updateTask", t.id, NoArgs, Obj(Updates(t.args, TaskKeys)))
      [] t.name = "update_habit" ->
           Invocation("updateHabit", t.id, NoArgs, Obj(Rest(t.args)))
      [] t.name = "update_item" ->
           Invocation("updateItem", t.id, NoArgs, Obj(Rest(t.args)))
      [] t.name = "toggle_journal_todo" ->
           Invocation("updateJournalTodo", t.id, NoArgs, Obj(Rest(t.args)))
      [] t.name = "update_person" ->
           Invocation("updatePerson", t.id, NoArgs, Obj(PersonUpdates(t.args)))
      [] t.name = "delete_item" -> Invocation("deleteItem", t.id, NoArgs, NoObj)
      [] t.name = "get_day_entry" -> Invocation("getDayEntry", t.id, NoArgs, NoObj)
      [] t.name = "get_portfolio_summary" ->
           Invocation("getPortfolioSummary", "", NoArgs, NoObj)

\* the code of a handler between the await and the return of text(...)
Render(t, v) ==
    CASE t.name \in {"list_projects", "list_tasks"} -> RenderList(v)
      [] t.name = "get_task" -> RenderDetails(v, "tags")
      [] t.name = "create_task" -> RenderFields(v, <<"Task", "created:">>)
      [] t.name = "update_task" -> RenderFields(v, <<"Task", "updated:">>)
      [] t.name = "update_habit" -> RenderFields(v, <<"Habit", "updated:">>)
      [] t.name = "update_item" -> RenderFields(v, <<"Item", "updated:">>)
      [] t.name = "toggle_journal_todo" -> RenderFields(v, <<"Todo", "updated:">>)
      [] t.name = "update_person" -> RenderFields(v, <<"Person", "updated:">>)
      [] t.name = "delete_item" -> Rendered(<<"Item", "deleted", t.id>>)
      [] t.name = "get_day_entry" ->
           IF v \in {JS_NULL, JS_UNDEFINED}
             THEN Rendered(<<"No", "day", "entry", "for", t.id>>)
             ELSE RenderDetails(v, "notes")
      [] t.name = "get_portfolio_summary" ->
           IF v = JS_NULL THEN RenderFailed(NoProperty(v, "summary"))
           ELSE IF v = "d1" THEN Rendered(<<"Portfolio", "Summary", v>>)
           ELSE RenderFailed(NoProperty(JS_UNDEFINED, "totalValue"))

\* try { const x = await client.m(...); return text(...) }
\* catch (err) { return errText(err) }
Handler_NoCatch(t, settled) ==
    IF settled.kind = "err" THEN ToolThrew(settled.error)
    ELSE LET out == Render(t, settled.data)
         IN  IF out.ok THEN text(out.text) ELSE errText(out.error)
Handler(t, settled) ==
    IF settled.kind = "err" THEN errText(settled.error)
    ELSE LET out == Render(t, settled.data)
         IN  IF out.ok THEN text(out.text) ELSE errText(out.error)

(* ---------------- the state of a call --------------------------------- *)

\* what fetch() is called with
Sent_BodyOnce(r) ==
    [url |-> r.url, method |-> r.method, headers |-> r.headers,
     body |-> IF r.attempt = 0 THEN r.body ELSE NoBody]
Sent(r) == [url |-> r.url, method |-> r.method, headers |-> r.headers, body |-> r.body]

IdleCall ==
    [ pc              |-> "idle",
      path            |-> <<>>,
      options         |-> NoOptions,
      url             |-> <<>>,
      method          |-> "",
      headers         |-> <<>>,
      body            |-> NoBody,
      sent            |-> <<>>,
      inv             |-> NoInvocation,
      prior           |-> "none",
      returns         |-> NoReturn,
      parsed          |-> Unparseable,
      facade          |-> NoResult,
      tool            |-> NoToolCall,
      toolResult      |-> NoToolResult,
      attempt         |-> 0,
      lastError       |-> NoError,
      signalRemaining |-> 0,
      delayRemaining  |-> 0,
      waited          |-> 0,
      result          |-> NoResult,
      fetchCalls      |-> 0,
      delays          |-> 0,
      budget          |-> 0,
      outcomes        |-> <<>> ]

\* for (...; attempt <= MAX_RETRIES; ...)
LoopCond(attempt) == attempt <= MAX_RETRIES

\* res.ok
ResOk_Only200(status) == status = 200
ResOk(status) == 200 <= status /\ status <= 299

\* res.status === 503 && attempt < MAX_RETRIES
Retry503_SharedBudget(status, attempt) ==
    status = 503 /\ attempt < MAX_RETRIES /\ \A c \in Slots : call[c].delays = 0
Retry503_Never(status, attempt) == FALSE
Retry503_Always(status, attempt) == status = 503
Retry503(status, attempt) == status = 503 /\ attempt < MAX_RETRIES

\* lastError.name !== 'AbortError' && attempt < MAX_RETRIES &&
\*   (message.includes('fetch failed') || message.includes('ECONNREFUSED'))
RetryOnError_NoLimit(lastError, attempt) ==
    /\ lastError.name # "AbortError"
    /\ \/ Includes(lastError.message, FETCH_FAILED)
       \/ Includes(lastError.message, ECONNREFUSED)
RetryOnError_FetchFailedOnly(lastError, attempt) ==
    /\ lastError.name # "AbortError"
    /\ attempt < MAX_RETRIES
    /\ Includes(lastError.message, FETCH_FAILED)
RetryOnError_AnyMessage(lastError, attempt) ==
    /\ lastError.name # "AbortError"
    /\ attempt < MAX_RETRIES
RetryOnError(lastError, attempt) ==
    /\ lastError.name # "AbortError"
    /\ attempt < MAX_RETRIES
    /\ \/ Includes(lastError.message, FETCH_FAILED)
       \/ Includes(lastError.message, ECONNREFUSED)

\* res.json(): a promise fulfilled with the parsed body, or rejected
Fulfilled(v) == [ok |-> TRUE, value |-> v, reason |-> NoError]
Failed(e) == [ok |-> FALSE, value |-> Unparseable, reason |-> e]
ResJson(body) == IF body.parses THEN Fulfilled(body) ELSE Failed(ParseError)

\* promise.catch(() => ({}))
CatchEmpty_Dropped(p) == p
CatchEmpty(p) == IF p.ok THEN p ELSE Fulfilled(EmptyObject)

\* `HTTP ${res.status}: ${res.statusText}`
HttpMessage(status, statusText) ==
    <<"HTTP", ToString(status) \o ":">> \o statusText

\* body.error || `HTTP ...`: an absent or empty `error` is falsy
ErrorMessage_Generic(body, res) == HttpMessage(res.status, res.statusText)
ErrorMessage(body, res) ==
    IF body.hasError /\ body.error # <<>>
      THEN body.error
      ELSE HttpMessage(res.status, res.statusText)

\* fetch(url, fetchOptions) is called: the attempt starts
Fetch(r) ==
    [r EXCEPT !.pc = "fetching", !.fetchCalls = @ + 1, !.budget = r.signalRemaining,
              !.sent = Append(@, Sent(r))]

\* await new Promise((r) => setTimeout(r, RETRY_DELAY_MS)); continue
Sleep(r) ==
    [r EXCEPT !.pc = "delay", !.delayRemaining = RETRY_DELAY_MS, !.delays = @ + 1,
              !.waited = 0]

\* the promise of request() settles; the signal and the timer are dropped
\* with it settles the promise of the facade method that awaits it, and
\* the handler of the tool that awaits that one returns
Settle(r, result) ==
    LET facade == IF r.returns = NoReturn THEN NoResult
                  ELSE FacadeReturn(r.returns, result, r.parsed)
    IN  [r EXCEPT !.pc = "done", !.result = result,
                  !.signalRemaining = 0, !.delayRemaining = 0,
                  !.facade = facade,
                  !.toolResult = IF r.tool = NoToolCall THEN NoToolResult
                                 ELSE Handler(r.tool, facade)]

\* catch (err) { ... }
Catch_KeepsFirst(r, err) ==
    LET lastError == IF r.lastError = NoError THEN AsError(err) ELSE r.lastError
        q == [r EXCEPT !.lastError = lastError]
    IN  IF RetryOnError(lastError, r.attempt)
          THEN Sleep(q)
          ELSE Settle(q, Thrown(lastError))
Catch(r, err) ==
    LET lastError == AsError(err)
        q == [r EXCEPT !.lastError = lastError]
    IN  IF RetryOnError(lastError, r.attempt)
          THEN Sleep(q)
          ELSE Settle(q, Thrown(lastError))

\* return res.json(): the promise is returned, not awaited, so its
\* rejection leaves the try block uncaught
ReturnJson(r, res) ==
    LET p == ResJson(res.body)
    IN  IF p.ok THEN Settle([r EXCEPT !.parsed = p.value], Returned(p.value.data))
                ELSE Settle(r, Thrown(p.reason))

\* if (!res.ok) { const body = await res.json().catch(() => ({}));
\*                throw new Error(body.error || `HTTP ...`) }, thrown inside
\* the try block and so handled by its catch
ThrowHttpError(r, res) ==
    LET p == CatchEmpty(ResJson(res.body))
    IN  IF p.ok THEN Catch(r, Err("Error", ErrorMessage(p.value, res)))
                ELSE Catch(r, p.reason)

\* the body of the try block once fetch() has resolved with res
OnResponse(r, res) ==
    IF Retry503(res.status, r.attempt) THEN Sleep(r)
    ELSE IF ~ResOk(res.status) THEN ThrowHttpError(r, res)
    ELSE ReturnJson(r, res)

\* attempt++ and the loop test; past the loop: throw lastError ?? new Error(..)
NextAttempt_Stuck(r) == r
NextAttempt(r) ==
    LET q == [r EXCEPT !.attempt = @ + 1]
    IN  IF LoopCond(q.attempt) THEN Fetch(q)
        ELSE Settle(q, Thrown(IF q.lastError = NoError
                                THEN Err("Error", <<"Request", "failed">>)
                                ELSE q.lastError))

\* AbortSignal.timeout(this.timeoutMs): made once per call, before the loop
NewSignal(timeoutMs) == timeoutMs

Log(r, o) == [r EXCEPT !.outcomes = Append(@, o)]

(* ---------------- actions ---------------------------------------------- *)

\* the entry of request(path, options): url and fetchOptions are built
\* ({ ...options, headers, signal }) and the first fetch is issued
StartRequest(cl, path, options, inv, returns) ==
    Fetch([IdleCall EXCEPT !.inv = inv,
                           !.returns = returns,
                           !.path = path,
                           !.options = options,
                           !.url = cl.baseUrl \o path,
                           !.method = options.method,
                           !.headers = Spread(InjectedHeaders(cl.apiKey), options.headers),
                           !.body = options.body,
                           !.signalRemaining = NewSignal(cl.timeoutMs)])

(* ---------------- the process (index.ts:193-212, 1300-1308) ------------ *)

\* the two variables the module reads from process.env
Env(key, url) == [TRACKFUSION_API_KEY |-> key, TRACKFUSION_API_URL |-> url]
NoEnv == Env(JsUndefined, JsUndefined)

DEFAULT_BASE_URL == <<"https://europe-west1-oz-track.cloudfunctions.net/api">>

\* a || b
Or(a, b) == IF Truthy(a) THEN a ELSE b

\* !API_KEY
Missing_Never(v) == FALSE
Missing(v) == ~Truthy(v)

KEY_REQUIRED == <<"TRACKFUSION_API_KEY", "environment", "variable", "is", "required">>

\* the state of the process: where the module body stands, the environment
\* it was started with, the .env file of its directory, process.env, the
\* constants API_KEY and BASE_URL, the server, what was written to stderr
\* and the exit status
Process(pc, environ, dotfile) ==
    [ pc       |-> pc,
      environ  |-> environ,
      dotfile  |-> dotfile,
      env      |-> environ,
      API_KEY  |-> JsUndefined,
      BASE_URL |-> JsUndefined,
      server   |-> "none",
      stderr   |-> <<>>,
      exitCode |-> Undefined ]

\* the client is used on its own, outside the server's process
NoProcess == Process("none", NoEnv, NoEnv)

\* the server's process once it is connected to stdio with the client cfg
\* was built from
Serving(cfg) ==
    LET environ == Env(Str(<<cfg.apiKey>>), Str(cfg.baseUrl))
    IN  [Process("serving", environ, NoEnv) EXCEPT
           !.API_KEY = environ.TRACKFUSION_API_KEY,
           !.BASE_URL = environ.TRACKFUSION_API_URL,
           !.server = "connected"]

\* no client has been constructed yet
NoConfig == [apiKey |-> "", baseUrl |-> <<>>, timeoutMs |-> Undefined]
NoClient == [apiKey |-> "", baseUrl |-> <<>>, timeoutMs |-> 0]

\* process.exit(code) after console.error(line)
Exit(p, line, code) ==
    [p EXCEPT !.pc = "exited", !.stderr = Append(@, line), !.exitCode = code]

\* no query string has been built
NoQs == [params |-> <<>>, built |-> FALSE, out |-> <<>>]

Init ==
    /\ clientConfig \in Configs
    /\ client = Constructor(clientConfig)
    /\ call = [c \in Slots |-> IdleCall]
    /\ query = NoQs
    /\ process = NoProcess

\* request(path, options) is called
Request(c, path, options) ==
    /\ call[c].pc \in {"idle", "done"}
    /\ call' = [call EXCEPT ![c] = StartRequest(client, path, options, NoInvocation, NoReturn)]
    /\ UNCHANGED <<clientConfig, client, query, process>>

\* request(path, options) is called after an earlier call on the same
\* client has ended; `prior` keeps how that one ended, for the properties
RequestAgain_AttemptKept(c, path, options) ==
    /\ call[c].pc = "done"
    /\ call' = [call EXCEPT ![c] =
                  Fetch([StartRequest(client, path, options, NoInvocation, NoReturn)
                           EXCEPT !.pc = "idle", !.fetchCalls = 0, !.sent = <<>>,
                                  !.prior = call[c].result.kind,
                                  !.attempt = call[c].attempt])]
    /\ UNCHANGED <<clientConfig, client, query, process>>
RequestAgain(c, path, options) ==
    /\ call[c].pc = "done"
    /\ call' = [call EXCEPT ![c] =
                  [StartRequest(client, path, options, NoInvocation, NoReturn)
                     EXCEPT !.prior = call[c].result.kind]]
    /\ UNCHANGED <<clientConfig, client, query, process>>

\* fetch resolves with a response before the signal fires
FetchResolves(c, res) ==
    /\ call[c].pc = "fetching"
    /\ call[c].signalRemaining > 0
    /\ call' = [call EXCEPT ![c] = OnResponse(Log(@, Responded(res, @.budget)), res)]
    /\ UNCHANGED <<clientConfig, client, query, process>>

\* fetch rejects with a transport failure before the signal fires
FetchRejects(c, err) ==
    /\ call[c].pc = "fetching"
    /\ call[c].signalRemaining > 0
    /\ call' = [call EXCEPT ![c] = Catch(Log(@, Rejected(err, @.budget)), err)]
    /\ UNCHANGED <<clientConfig, client, query, process>>

\* the signal has fired: the pending (or just issued) fetch rejects with
\* the signal's reason
FetchAborts(c, reason) ==
    /\ call[c].pc = "fetching"
    /\ call[c].signalRemaining = 0
    /\ call' = [call EXCEPT ![c] = Catch(Log(@, Aborted(reason, @.budget)), reason)]
    /\ UNCHANGED <<clientConfig, client, query, process>>

\* the retry timer has fired: the loop continues
DelayElapsed(c) ==
    /\ call[c].pc = "delay"
    /\ call[c].delayRemaining = 0
    /\ call' = [call EXCEPT ![c] = NextAttempt(@)]
    /\ UNCHANGED <<clientConfig, client, query, process>>

Less(a, b) == IF a > b THEN a - b ELSE 0

Active(r) == r.pc \in {"fetching", "delay"}

\* a fired signal rejects the pending fetch before more time passes
Urgent(r) == r.pc = "fetching" /\ r.signalRemaining = 0

\* `waited` is the time a call has spent in its delay, counted up to the
\* length of the delay
Advance(r, d) ==
    IF Active(r)
      THEN [r EXCEPT !.signalRemaining = Less(@, d), !.delayRemaining = Less(@, d),
                     !.waited = IF r.pc # "delay" THEN @
                                ELSE IF @ + d > RETRY_DELAY_MS THEN RETRY_DELAY_MS
                                ELSE @ + d]
      ELSE r

\* the timers of an active call that have not fired yet
Pending(r) ==
    IF ~Active(r) THEN {}
    ELSE {t \in {r.signalRemaining, r.delayRemaining} : t > 0}

\* time passes by one tick
Tick ==
    /\ \E c \in Slots : Active(call[c])
    /\ \A c \in Slots : ~Urgent(call[c])
    /\ \A c \in Slots :
          Active(call[c]) /\ call[c].signalRemaining > 0
            => client.timeoutMs - call[c].signalRemaining < MaxTicks * TickMs
    /\ call' = [c \in Slots |-> Advance(call[c], TickMs)]
    /\ UNCHANGED <<clientConfig, client, query, process>>

\* time passes until the next timer fires
Jump ==
    /\ \A c \in Slots : ~Urgent(call[c])
    /\ LET ts == UNION { Pending(call[c]) : c \in Slots }
       IN  /\ ts # {}
           /\ LET d == CHOOSE t \in ts : \A u \in ts : t <= u
              IN  call' = [c \in Slots |-> Advance(call[c], d)]
    /\ UNCHANGED <<clientConfig, client, query, process>>

\* a method of the facade is called: it builds its path and options and
\* calls request(); the call takes a slot of its own (a call that follows
\* another starts from the same IdleCall and shares nothing with it)
CallFacade(c, inv) ==
    /\ call[c].pc = "idle"
    /\ LET plan == Facade(inv)
       IN  call' = [call EXCEPT ![c] =
                      StartRequest(client, plan.path, plan.options, inv, plan.returns)]
    /\ UNCHANGED <<clientConfig, client, query, process>>

\* the host calls a tool of the connected server: its handler calls one
\* method of the client
CallTool(c, t) ==
    /\ process.pc = "serving"
    /\ call[c].pc = "idle"
    /\ LET inv == ClientCall(t)
           plan == Facade(inv)
       IN  call' = [call EXCEPT ![c] =
                      [StartRequest(client, plan.path, plan.options, inv, plan.returns)
                         EXCEPT !.tool = t]]
    /\ UNCHANGED <<clientConfig, client, query, process>>

\* the slots on which calls are issued one after the other
SeqSlots == {1}

Next ==
    \/ \E c \in SeqSlots, path \in Paths, options \in RequestOptions :
          Request(c, path, options)
    \/ \E c \in SeqSlots, res \in Responses : FetchResolves(c, res)
    \/ \E c \in SeqSlots, err \in TransportFailures : FetchRejects(c, err)
    \/ \E c \in SeqSlots, reason \in AbortReasons : FetchAborts(c, reason)
    \/ \E c \in SeqSlots : DelayElapsed(c)
    \/ Tick
    \/ Jump

Spec == Init /\ [][Next]_vars

(* ---------------- buildQs on its own ----------------------------------- *)

\* the params objects given to buildQs: up to three keys in any order,
\* each with a value of the parameter's type
QsKeys == {"a", "b", "c"}
QsValues ==
    { JsUndefined, Str(<<"x">>), Str(<<>>), Str(<<"a", "&", "b">>),
      Num(<<"0">>), Bool(<<"false">>) }
MaxParams == 3
QsKeyOrders ==
    { ks \in UNION { [1..n -> QsKeys] : n \in 0..MaxParams } :
        \A i, j \in DOMAIN ks : i # j => ks[i] # ks[j] }
QsParams ==
    UNION { { [i \in DOMAIN ks |-> <<ks[i], vs[i]>>] : vs \in [DOMAIN ks -> QsValues] } :
            ks \in QsKeyOrders }

InitQs ==
    /\ clientConfig \in {cfg \in Configs : cfg.timeoutMs = Undefined}
    /\ client = Constructor(clientConfig)
    /\ call = [c \in Slots |-> IdleCall]
    /\ query \in { [params |-> p, built |-> FALSE, out |-> <<>>] : p \in QsParams }
    /\ process = NoProcess

\* this.buildQs(params)
BuildQs ==
    /\ ~query.built
    /\ query' = [query EXCEPT !.built = TRUE, !.out = buildQs(query.params)]
    /\ UNCHANGED <<clientConfig, client, call, process>>

NextQs == BuildQs

SpecQs == InitQs /\ [][NextQs]_vars

(* ---------------- the facade over a small network ---------------------- *)

\* what the remote API answers to a method: its envelope with a value or
\* with null, another object, the body `null`, no content, an error, 503
FacadeResponses(returns) ==
    LET f == IF returns.kind = "field" THEN returns.name ELSE "toggled"
    IN  { [status |-> 200, statusText |-> <<"OK">>, body |-> Payload("d1", f, "v1")],
          [status |-> 200, statusText |-> <<"OK">>, body |-> Payload("d2", f, JS_NULL)],
          [status |-> 200, statusText |-> <<"OK">>, body |-> Payload("d3", "other", "v1")],
          [status |-> 200, statusText |-> <<"OK">>, body |-> NullBody],
          [status |-> 204, statusText |-> <<"No", "Content">>, body |-> Unparseable],
          [status |-> 404, statusText |-> <<"Not", "Found">>,
           body |-> ErrorBody(<<"Task", "not", "found">>)],
          [status |-> 503, statusText |-> <<"Service", "Unavailable">>,
           body |-> Unparseable] }

FacadeFailures ==
    { Err("TypeError", <<"fetch", "failed">>),
      Err("Error", <<"getaddrinfo", "ENOTFOUND", "x">>) }

FacadeAborts ==
    { Err("TimeoutError", <<"The", "operation", "was", "aborted", "due", "to", "timeout">>) }

InitFacade ==
    /\ clientConfig \in {cfg \in Configs : cfg.timeoutMs = Undefined}
    /\ client = Constructor(clientConfig)
    /\ call = [c \in Slots |-> IdleCall]
    /\ query = NoQs
    /\ process = NoProcess

NextFacade ==
    \/ \E c \in SeqSlots, inv \in Invocations : CallFacade(c, inv)
    \/ \E c \in SeqSlots : \E res \in FacadeResponses(call[c].returns) :
          FetchResolves(c, res)
    \/ \E c \in SeqSlots, err \in FacadeFailures : FetchRejects(c, err)
    \/ \E c \in SeqSlots, reason \in FacadeAborts : FetchAborts(c, reason)
    \/ \E c \in SeqSlots : DelayElapsed(c)
    \/ Jump

SpecFacade == InitFacade /\ [][NextFacade]_vars

(* ---------------- the tools over the same network --------------------- *)

\* the answers of the remote API, and one whose value lacks its fields
ToolResponses(returns) ==
    LET f == IF returns.kind = "field" THEN returns.name ELSE "summary"
    IN  FacadeResponses(returns)
          \cup { [status |-> 200, statusText |-> <<"OK">>, body |-> Payload("d4", f, HOLLOW)] }

InitTool ==
    /\ clientConfig \in {cfg \in Configs : cfg.timeoutMs = Undefined}
    /\ client = Constructor(clientConfig)
    /\ call = [c \in Slots |-> IdleCall]
    /\ query = NoQs
    /\ process = Serving(clientConfig)

NextTool ==
    \/ \E c \in SeqSlots, t \in ToolCalls : CallTool(c, t)
    \/ \E c \in SeqSlots : \E res \in ToolResponses(call[c].returns) :
          FetchResolves(c, res)
    \/ \E c \in SeqSlots, err \in FacadeFailures \cup {NonError(<<"socket", "hang", "up">>)} :
          FetchRejects(c, err)
    \/ \E c \in SeqSlots, reason \in FacadeAborts : FetchAborts(c, reason)
    \/ \E c \in SeqSlots : DelayElapsed(c)
    \/ Jump

SpecTool == InitTool /\ [][NextTool]_vars

(* ---------------- concurrent calls on one client ----------------------- *)

\* the method the concurrent callers call
ConcInvocations == ById("getTask")

\* what the network answers while several calls are in flight
ConcResponses ==
    { [status |-> 200, statusText |-> <<"OK">>, body |-> Payload("d1", "task", "v1")],
      [status |-> 200, statusText |-> <<"OK">>, body |-> Payload("d2", "task", JS_NULL)],
      [status |-> 503, statusText |-> <<"Service", "Unavailable">>, body |-> Unparseable] }

InitConc ==
    /\ clientConfig \in {cfg \in Configs : cfg.timeoutMs = Undefined /\ cfg.baseUrl = <<"https://x">>}
    /\ client = Constructor(clientConfig)
    /\ call = [c \in Slots |-> IdleCall]
    /\ query = NoQs
    /\ process = NoProcess

\* a method is called on any slot while the calls of the other slots are
\* at any point of their own loop
NextConc ==
    \/ \E c \in Slots, inv \in ConcInvocations : CallFacade(c, inv)
    \/ \E c \in Slots, res \in ConcResponses : FetchResolves(c, res)
    \/ \E c \in Slots, err \in FacadeFailures : FetchRejects(c, err)
    \/ \E c \in Slots, reason \in FacadeAborts : FetchAborts(c, reason)
    \/ \E c \in Slots : DelayElapsed(c)
    \/ Jump

SpecConc == InitConc /\ [][NextConc]_vars

(* ---------------- calls one after the other on one client -------------- *)

SeqOptions == { Options("GET", <<>>, NoBody), Options("PATCH", <<>>, <<"{", "}">>) }

SeqResponses ==
    ConcResponses
      \cup { [status |-> 404, statusText |-> <<"Not", "Found">>,
              body |-> ErrorBody(<<"Task", "not", "found">>)] }

InitSeq ==
    /\ clientConfig \in {cfg \in Configs : cfg.timeoutMs \in {Undefined, 3000}}
    /\ client = Constructor(clientConfig)
    /\ call = [c \in Slots |-> IdleCall]
    /\ query = NoQs
    /\ process = NoProcess

NextSeq ==
    \/ \E c \in SeqSlots, path \in Paths, options \in SeqOptions :
          call[c].pc = "idle" /\ Request(c, path, options)
    \/ \E c \in SeqSlots, path \in Paths, options \in SeqOptions :
          RequestAgain(c, path, options)
    \/ \E c \in SeqSlots, res \in SeqResponses : FetchResolves(c, res)
    \/ \E c \in SeqSlots, err \in FacadeFailures : FetchRejects(c, err)
    \/ \E c \in SeqSlots, reason \in FacadeAborts : FetchAborts(c, reason)
    \/ \E c \in SeqSlots : DelayElapsed(c)
    \/ Jump

SpecSeq == InitSeq /\ [][NextSeq]_vars

(* ---------------- calls under a network and a clock that go on --------- *)

\* the attempt in flight ends: fetch() resolves, rejects, or is aborted by
\* the signal
Completes(c) ==
    \/ \E res \in SeqResponses : FetchResolves(c, res)
    \/ \E err \in FacadeFailures : FetchRejects(c, err)
    \/ \E reason \in FacadeAborts : FetchAborts(c, reason)

\* every fetch() settles, time passes, and a timer that has fired runs its
\* callback
Fairness ==
    /\ WF_vars(Jump)
    /\ \A c \in SeqSlots : WF_vars(Completes(c)) /\ WF_vars(DelayElapsed(c))

SpecLive == InitSeq /\ [][NextSeq]_vars /\ Fairness

(* ---------------- the start of the process ----------------------------- *)

\* how the process can be started: the key and the URL in its environment
\* and in the .env file
KeyChoices == {JsUndefined, Str(<<>>), Str(<<"tf_test_key">>)}
FileKeyChoices == {JsUndefined, Str(<<"tf_file_key">>)}
UrlChoices == {JsUndefined, Str(<<"https://x", "/">>)}

\* the tools the host calls once the server is connected
BootToolCalls == { t \in ToolCalls : t.name \in {"get_task", "delete_item"} }

\* what server.connect(transport) can reject with
ConnectFailures == { Err("Error", <<"stdin", "closed">>) }

InitBoot ==
    /\ clientConfig = NoConfig
    /\ client = NoClient
    /\ call = [c \in Slots |-> IdleCall]
    /\ query = NoQs
    /\ process \in { Process("start", Env(k, u), Env(f, JsUndefined)) :
                       k \in KeyChoices, u \in UrlChoices, f \in FileKeyChoices }

\* dotenv keeps a variable the environment already holds
FromFile(given, filed) == IF given = JsUndefined THEN filed ELSE given

\* import 'dotenv/config': process.env takes from .env the variables it lacks
LoadEnv ==
    /\ process.pc = "start"
    /\ process' = [process EXCEPT
          !.pc = "loaded",
          !.env = Env(FromFile(process.environ.TRACKFUSION_API_KEY,
                               process.dotfile.TRACKFUSION_API_KEY),
                      FromFile(process.environ.TRACKFUSION_API_URL,
                               process.dotfile.TRACKFUSION_API_URL))]
    /\ UNCHANGED <<clientConfig, client, call, query>>

\* const API_KEY = ...; const BASE_URL = ... || '...';
\* if (!API_KEY) { console.error(...); process.exit(1) }
CheckKey ==
    /\ process.pc = "loaded"
    /\ LET p == [process EXCEPT
                  !.API_KEY = process.env.TRACKFUSION_API_KEY,
                  !.BASE_URL = Or(process.env.TRACKFUSION_API_URL, Str(DEFAULT_BASE_URL))]
       IN  process' = IF Missing(p.API_KEY) THEN Exit(p, KEY_REQUIRED, 1)
                      ELSE [p EXCEPT !.pc = "checked"]
    /\ UNCHANGED <<clientConfig, client, call, query>>

\* const client = new TrackfusionClient({ apiKey: API_KEY, baseUrl: BASE_URL });
\* const server = new McpServer(...); server.tool(...) for every tool
Construct ==
    /\ process.pc = "checked"
    /\ clientConfig' = [apiKey |-> String(process.API_KEY)[1],
                        baseUrl |-> String(process.BASE_URL),
                        timeoutMs |-> Undefined]
    /\ client' = Constructor(clientConfig')
    /\ process' = [process EXCEPT !.pc = "constructed", !.server = "created"]
    /\ UNCHANGED <<call, query>>

\* main(): const transport = new StdioServerTransport();
\*         await server.connect(transport)
Main ==
    /\ process.pc = "constructed"
    /\ process' = [process EXCEPT !.pc = "connecting"]
    /\ UNCHANGED <<clientConfig, client, call, query>>

\* server.connect resolves: the server reads the host's calls from stdin
Connected ==
    /\ process.pc = "connecting"
    /\ process' = [process EXCEPT !.pc = "serving", !.server = "connected"]
    /\ UNCHANGED <<clientConfig, client, call, query>>

\* main().catch((err) => { console.error('Fatal error:', err); process.exit(1) })
ConnectFails(err) ==
    /\ process.pc = "connecting"
    /\ process' = Exit(process, <<"Fatal", "error:">> \o err.message, 1)
    /\ UNCHANGED <<clientConfig, client, call, query>>

NextBoot ==
    \/ LoadEnv
    \/ CheckKey
    \/ Construct
    \/ Main
    \/ Connected
    \/ \E err \in ConnectFailures : ConnectFails(err)
    \/ \E c \in SeqSlots, t \in BootToolCalls : CallTool(c, t)
    \/ \E c \in SeqSlots : \E res \in ToolResponses(call[c].returns) :
          FetchResolves(c, res)
    \/ \E c \in SeqSlots, err \in FacadeFailures : FetchRejects(c, err)
    \/ \E c \in SeqSlots, reason \in FacadeAborts : FetchAborts(c, reason)
    \/ \E c \in SeqSlots : DelayElapsed(c)
    \/ Jump

SpecBoot == InitBoot /\ [][NextBoot]_vars

(* ---------------- properties ------------------------------------------- *)

Is2xx(o) == o.kind = "response" /\ o.res.status \in 200..299
Is503(o) == o.kind = "response" /\ o.res.status = 503
IsOtherHttpError(o) ==
    o.kind = "response" /\ o.res.status \notin 200..299 /\ o.res.status # 503
IsJson(o) == o.kind = "response" /\ o.res.body.parses

\* the message the error of a non-2xx response is to carry
MessageOf(res) ==
    IF res.body.parses /\ res.body.hasError /\ res.body.error # <<>>
      THEN res.body.error
      ELSE <<"HTTP", ToString(res.status) \o ":">> \o res.statusText

Retrying(r) == r.pc \in {"delay", "fetching"} /\ r.result = NoResult
Last(r) == r.outcomes[Len(r.outcomes)]

\* C1: no call of request ever makes more than 2 fetch attempts, whatever
\* the network answers.
C1_AtMostTwoAttempts ==
    \A c \in Slots : call[c].fetchCalls <= 2

C1_Witness ==
    \E c \in Slots :
        /\ call[c].pc = "done"
        /\ call[c].fetchCalls = 2
        /\ Is503(call[c].outcomes[1])
        /\ Is503(call[c].outcomes[2])

C3_Second503Surfaces ==
    \A c \in Slots :
        LET r == call[c] IN
        (Len(r.outcomes) = 2 /\ Is503(r.outcomes[1]) /\ Is503(r.outcomes[2])) =>
            /\ r.pc = "done"
            /\ r.fetchCalls = 2
            /\ r.delays = 1
            /\ r.result.kind = "err"
            /\ r.result.error.message = MessageOf(r.outcomes[2].res)

C3_Witness ==
    \E c \in Slots :
        LET r == call[c] IN
        /\ Len(r.outcomes) = 2
        /\ Is503(r.outcomes[1])
        /\ Is503(r.outcomes[2])
        /\ MessageOf(r.outcomes[1].res) # MessageOf(r.outcomes[2].res)
        /\ r.result.kind = "err"

\* C4: a first attempt answered with a non-2xx status other than 503 ends
\* the call after exactly 1 attempt, with no delay and no retry, whatever
\* the error field of the body holds.
C4_NoRetryOnOtherStatus ==
    \A c \in Slots :
        LET r == call[c] IN
        (Len(r.outcomes) >= 1 /\ IsOtherHttpError(r.outcomes[1])) =>
            /\ r.pc = "done"
            /\ r.fetchCalls = 1
            /\ r.delays = 0
            /\ r.result.kind = "err"

\* a call that has failed on a non-2xx response whose body is JSON
FailedOnJsonError(r) ==
    /\ r.pc = "done"
    /\ r.result.kind = "err"
    /\ Len(r.outcomes) >= 1
    /\ Last(r).kind = "response"
    /\ Last(r).res.status \notin 200..299
    /\ Last(r).res.body.parses

\* C5 as stated: the message is the body's error field whenever the field
\* is present, and HTTP <status>: <statusText> when it is absent.
C5_MessageWhenFieldPresent ==
    \A c \in Slots :
        LET r == call[c] IN
        FailedOnJsonError(r) =>
            r.result.error.message =
                IF Last(r).res.body.hasError
                  THEN Last(r).res.body.error
                  ELSE <<"HTTP", ToString(Last(r).res.status) \o ":">>
                          \o Last(r).res.statusText

\* C5 amended: the message is the body's error field when the field is
\* present and not empty, and HTTP <status>: <statusText> when the field
\* is absent or empty.
C5_MessageWhenFieldNonEmpty ==
    \A c \in Slots :
        LET r == call[c] IN
        FailedOnJsonError(r) =>
            r.result.error.message =
                IF Last(r).res.body.hasError /\ Last(r).res.body.error # <<>>
                  THEN Last(r).res.body.error
                  ELSE <<"HTTP", ToString(Last(r).res.status) \o ":">>
                          \o Last(r).res.statusText

C5_Witness ==
    \E c \in Slots :
        LET r == call[c] IN
        /\ FailedOnJsonError(r)
        /\ Last(r).res.status = 401
        /\ Last(r).res.body.error = <<"Invalid", "API", "key">>
        /\ r.result.error.message = <<"Invalid", "API", "key">>

\* C6: when the body of a non-2xx response is not JSON the call fails with
\* HTTP <status>: <statusText> of that response, never with the error of
\* the failed parse.
C6_ParseFailureFallsBack ==
    \A c \in Slots :
        LET r == call[c] IN
        (/\ Len(r.outcomes) >= 1
         /\ Last(r).kind = "response"
         /\ Last(r).res.status \notin 200..299
         /\ ~Last(r).res.body.parses
         /\ r.pc = "done") =>
            /\ r.result.kind = "err"
            /\ r.result.error # ParseError
            /\ r.result.error.message =
                  <<"HTTP", ToString(Last(r).res.status) \o ":">> \o Last(r).res.statusText

C6_Witness ==
    \E c \in Slots :
        LET r == call[c] IN
        /\ r.pc = "done"
        /\ Len(r.outcomes) = 1
        /\ Last(r).kind = "response"
        /\ Last(r).res.status = 500
        /\ ~Last(r).res.body.parses
        /\ r.result.error.message = <<"HTTP", "500:", "Error">>

\* a rejection of fetch whose message contains ECONNREFUSED and that is
\* not an abort
IsConnRefused(o) ==
    /\ o.kind = "reject"
    /\ o.err.name # "AbortError"
    /\ Includes(o.err.message, ECONNREFUSED)

C8_TimeoutNeverRetried ==
    \A c \in Slots :
        LET r == call[c] IN
        \A i \in 1..Len(r.outcomes) :
            r.outcomes[i].kind = "abort" =>
                /\ i = Len(r.outcomes)
                /\ r.pc = "done"
                /\ r.fetchCalls = i
                /\ r.result = Thrown(r.outcomes[i].err)

C8_Witness ==
    \E c \in Slots :
        LET r == call[c] IN
        /\ r.pc = "done"
        /\ r.fetchCalls = 1
        /\ r.outcomes[1].kind = "abort"
        /\ r.outcomes[1].err.name = "TimeoutError"
        /\ r.result.kind = "err"

\* C9: every attempt, the retry included, may run for a full timeoutMs
\* from its own start before the signal aborts it.
C9_TimeoutPerAttempt ==
    \A c \in Slots :
        call[c].pc = "fetching" => call[c].budget = client.timeoutMs

C11_InjectedHeaders ==
    \A c \in Slots :
        LET r == call[c] IN
        /\ Len(r.sent) = r.fetchCalls
        /\ \A i \in DOMAIN r.sent :
              LET h == r.sent[i].headers
                  inj == InjectedHeaders(client.apiKey)
              IN  \A j \in DOMAIN inj :
                      LET k == inj[j][1] IN
                      /\ k \in Keys(h)
                      /\ Get(h, k) = IF k \in Keys(r.options.headers)
                                        THEN Get(r.options.headers, k)
                                        ELSE inj[j][2]

C11_Witness ==
    \E c \in Slots :
        LET r == call[c] IN
        /\ r.pc = "done"
        /\ Len(r.sent) = 2
        /\ "Authorization" \in Keys(r.options.headers)
        /\ Get(r.options.headers, "Authorization") = <<"Basic", "abc">>
        /\ Get(r.sent[2].headers, "Authorization") = <<"Basic", "abc">>
        /\ Get(r.sent[2].headers, "Content-Type") = <<"application/json">>
        /\ Get(r.sent[2].headers, "X-Trace") = <<"1">>

\* C12: the URL of every request of a facade method is the URL that a
\* client constructed from any of the two base URLs (with and without
\* the trailing slash) builds for the same method and arguments.
C12_SameUrlForBothBaseUrls ==
    \A c \in Slots :
        LET r == call[c] IN
        r.inv # NoInvocation =>
            \A i \in DOMAIN r.sent : \A cfg \in Configs :
                r.sent[i].url = Constructor(cfg).baseUrl \o Facade(r.inv).path

C12_Witness ==
    \E c \in Slots :
        LET r == call[c] IN
        /\ clientConfig.baseUrl = <<"https://x", "/">>
        /\ r.pc = "done"
        /\ r.inv.op = "listTasks"
        /\ Len(r.sent) = 2
        /\ r.sent[2].url = <<"https://x", "/projects/", "id1", "/tasks",
                              "?", "status", "=", "a", "%26", "b">>

UpdateOps ==
    {"updateTask", "updateHabit", "updateItem", "updateJournalTodo", "updatePerson"}
InputKeys == {"title", "name", "dueDate", "endDate", "replacementDate", "birthday"}

\* C13: the body of the PATCH request of an update method holds `k: null`
\* for every key k of the input whose value is null, and does not hold k
\* at all when the input leaves k out or has it undefined.
C13_NullKeptUndefinedDropped ==
    \A c \in Slots :
        LET r == call[c]
            input == r.inv.o.entries
        IN  r.inv.op \in UpdateOps =>
              \A i \in DOMAIN r.sent :
                  /\ r.sent[i].method = "PATCH"
                  /\ \A k \in InputKeys :
                        /\ (k \in Keys(input) /\ Get(input, k) = JsNull)
                              => HasNull(r.sent[i].body, k)
                        /\ (k \notin Keys(input) \/ Get(input, k) = JsUndefined)
                              => ~HasKey(r.sent[i].body, k)

C13_Witness ==
    \E c \in Slots :
        LET r == call[c] IN
        /\ r.pc = "done"
        /\ r.inv.op = "updateTask"
        /\ r.inv.o.entries = << <<"title", JsUndefined>>, <<"dueDate", JsNull>> >>
        /\ r.sent[1].body = <<"{", "\"", "dueDate", "\"", ":", "null", "}">>
        /\ r.facade = Returned("v1")

\* the pieces of a text between the occurrences of sep
RECURSIVE Split(_, _)
Split(t, sep) ==
    IF \A i \in DOMAIN t : t[i] # sep THEN <<t>>
    ELSE LET i == CHOOSE j \in DOMAIN t : t[j] = sep /\ \A h \in 1..(j - 1) : t[h] # sep
         IN  <<SubSeq(t, 1, i - 1)>> \o Split(SubSeq(t, i + 1, Len(t)), sep)

\* what the server reads back from an escaped token
Unescaped(t) ==
    CASE t = "%20" -> " "
      [] t = "%26" -> "&"
      [] t = "%3D" -> "="
      [] t = "%3F" -> "?"
      [] t = "%2F" -> "/"
      [] OTHER -> t

\* the parameters a query string carries, in order: <<key, value text>>
Carried(out) ==
    IF out = <<>> THEN <<>>
    ELSE LET parts == Split(Tail(out), "&")
         IN  [i \in DOMAIN parts |->
                <<parts[i][1],
                  [j \in 1..(Len(parts[i]) - 2) |-> Unescaped(parts[i][j + 2])]>>]

WellFormed(out) ==
    out # <<>> =>
        /\ out[1] = "?"
        /\ \A i \in 2..Len(out) : out[i] # "?"
        /\ LET parts == Split(Tail(out), "&")
           IN  \A i \in DOMAIN parts :
                   /\ Len(parts[i]) >= 2
                   /\ parts[i][2] = "="
                   /\ \A j \in 3..Len(parts[i]) : parts[i][j] # "="

\* C14: buildQs returns a query string that carries exactly the params
\* whose value is not undefined, in the order given, 0, false and ''
\* included; {a: 'x', b: undefined, c: 0} gives ?a=x&c=0, and params that
\* are all undefined give the empty string.
C14_BuildQsOmitsUndefinedOnly ==
    query.built =>
        LET given == SelectSeq(query.params, LAMBDA e : e[2].type # "undefined")
        IN  /\ WellFormed(query.out)
            /\ Carried(query.out) = [i \in DOMAIN given |-> <<given[i][1], given[i][2].text>>]
            /\ (given = <<>>) <=> (query.out = <<>>)
            /\ query.params = << <<"a", Str(<<"x">>)>>, <<"b", JsUndefined>>, <<"c", Num(<<"0">>)>> >>
                  => query.out = <<"?", "a", "=", "x", "&", "c", "=", "0">>

C14_Witness ==
    /\ query.built
    /\ query.params = << <<"a", Str(<<"x">>)>>, <<"b", JsUndefined>>, <<"c", Num(<<"0">>)>> >>
    /\ query.out = <<"?", "a", "=", "x", "&", "c", "=", "0">>

\* the optional filters a call of a list method was given, by name
Filters(inv) ==
    LET a == inv.a IN
    CASE inv.op = "listProjects" -> << <<"includeArchived", a[1]>> >>
      [] inv.op \in {"listTasks"} -> << <<"status", a[1]>> >>
      [] inv.op = "listHabits" -> << <<"active", a[1]>> >>
      [] inv.op = "listJournalTodos" -> << <<"completed", a[1]>> >>
      [] inv.op = "getPersonalRecords" -> << <<"exerciseId", a[1]>> >>
      [] inv.op = "listItems" -> << <<"status", a[1]>>, <<"categoryId", a[2]>> >>
      [] inv.op = "listAssets" -> << <<"assetType", a[1]>>, <<"search", a[2]>> >>
      [] inv.op \in {"listHabitEntries", "listIncomes", "listBodyMeasurements"}
           -> << <<"from", a[1]>>, <<"to", a[2]>> >>
      [] inv.op \in {"listJournalEntries", "listWorkoutSessions"}
           -> << <<"from", a[1]>>, <<"to", a[2]>>, <<"limit", a[3]>> >>
      [] inv.op \in {"listSpendings", "listPeople", "listInvestmentTransactions"}
           -> inv.o.entries
      [] OTHER -> <<>>

\* the query string of a URL: from its ? on
QueryOf(url) ==
    IF \A i \in DOMAIN url : url[i] # "?" THEN <<>>
    ELSE LET i == CHOOSE j \in DOMAIN url : url[j] = "?"
         IN  SubSeq(url, i, Len(url))

SentKeys(url) == { Carried(QueryOf(url))[i][1] : i \in DOMAIN Carried(QueryOf(url)) }

\* C15: every list method leaves a filter out of the URL exactly when the
\* caller left it undefined; '', false and 0 are sent.
C15_FilterOmittedIffUndefined ==
    \A c \in Slots :
        LET r == call[c]
            fs == Filters(r.inv)
        IN  \A i \in DOMAIN r.sent : \A j \in DOMAIN fs :
                (fs[j][1] \in SentKeys(r.sent[i].url)) <=> (fs[j][2] # JsUndefined)

DeleteOps == {"deleteItem", "deleteSpending"}
BareOps == {"toggleHabitEntry", "getAssetPriceHistory", "getPortfolioSummary"}
NullableGetOps == {"getDayEntry", "getHabitAnalytics", "getSpendingAnalytics"}

\* request() resolved with a JSON object for a call of a facade method
Unwrapping(r) ==
    /\ r.pc = "done"
    /\ r.inv # NoInvocation
    /\ r.result.kind = "ok"
    /\ r.parsed # NullBody

CreateTaskKeys == {"title", "description", "status", "priority", "tags", "dueDate"}

\* C17: createTask(projectId, input) sends POST <baseUrl>/projects/
\* <projectId>/tasks with a JSON body that holds exactly the keys of input
\* whose value is defined, and returns the `task` field of the response.
C17_CreateTask ==
    \A c \in Slots :
        LET r == call[c]
            input == r.inv.o.entries
        IN  r.inv.op = "createTask" =>
              /\ \A i \in DOMAIN r.sent :
                    /\ r.sent[i].method = "POST"
                    /\ r.sent[i].url = <<"https://x", "/projects/", r.inv.id, "/tasks">>
                    /\ r.sent[i].body =
                          JSON_stringify(SelectSeq(input, LAMBDA e : e[2].type # "undefined"))
                    /\ \A k \in CreateTaskKeys :
                          HasKey(r.sent[i].body, k)
                            <=> (k \in Keys(input) /\ Get(input, k).type # "undefined")
              /\ (Unwrapping(r) /\ r.parsed.key = "task") => r.facade = Returned(r.parsed.value)

C17_Witness ==
    \E c \in Slots :
        LET r == call[c] IN
        /\ r.inv = Invocation("createTask", "id1", NoArgs, Obj(<< <<"title", Str(<<"T">>)>> >>))
        /\ r.sent = << [url |-> <<"https://x", "/projects/", "id1", "/tasks">>,
                        method |-> "POST",
                        headers |-> InjectedHeaders("tf_test_key"),
                        body |-> <<"{", "\"", "title", "\"", ":", "\"", "T", "\"", "}">>] >>
        /\ r.parsed = Payload("d1", "task", "v1")
        /\ r.facade = Returned("v1")

\* C18: deleteItem and deleteSpending send DELETE to the item's path and
\* resolve with no value whenever the answer is 2xx, whether or not its
\* body can be parsed.
C18_DeleteResolvesOn2xx ==
    \A c \in Slots :
        LET r == call[c] IN
        r.inv.op \in DeleteOps =>
            /\ \A i \in DOMAIN r.sent : r.sent[i].method = "DELETE"
            /\ (r.pc = "done" /\ Is2xx(Last(r))) => r.facade = Returned(JS_UNDEFINED)

\* C19: when request() rejects, the facade method that called it rejects
\* with the very same error, and no fetch is made beyond those of
\* request() itself.
C19_ErrorPassesThrough ==
    \A c \in Slots :
        LET r == call[c] IN
        (r.pc = "done" /\ r.inv # NoInvocation /\ r.result.kind = "err") =>
            /\ r.facade = r.result
            /\ Len(r.sent) = Len(r.outcomes)
            /\ Len(r.sent) = r.fetchCalls

C19_Witness ==
    \E c \in Slots :
        LET r == call[c] IN
        /\ r.pc = "done"
        /\ r.inv.op = "getTask"
        /\ Len(r.sent) = 1
        /\ r.result = Thrown(Err("Error", <<"Task", "not", "found">>))
        /\ r.facade = Thrown(Err("Error", <<"Task", "not", "found">>))

\* C20: a tool call ends with a returned result, never an exception:
\* either a text without the error flag, or isError with the text
\* "Error: " and the error's message; a failure of the client call always
\* gives the second, with the client error's message.
C20_ToolResultIsTextOrError ==
    \A c \in Slots :
        LET r == call[c] IN
        r.tool # NoToolCall =>
            /\ (r.pc = "done") <=> (r.toolResult # NoToolResult)
            /\ r.pc = "done" =>
                  /\ r.toolResult.kind = "returned"
                  /\ r.toolResult.isError =>
                        /\ Len(r.toolResult.text) >= 1
                        /\ r.toolResult.text[1] = "Error:"
                  /\ r.facade.kind = "err" =>
                        r.toolResult =
                          [kind |-> "returned", isError |-> TRUE,
                           text |-> <<"Error:">> \o r.facade.error.message]
                  /\ ~r.toolResult.isError =>
                        /\ r.facade.kind = "ok"
                        /\ r.toolResult.text # <<>>

C20_Witness ==
    \E c \in Slots :
        LET r == call[c] IN
        /\ r.tool.name = "list_projects"
        /\ r.pc = "done"
        /\ r.fetchCalls = 2
        /\ r.facade = Thrown(Err("Error", <<"HTTP", "503:", "Service", "Unavailable">>))
        /\ r.toolResult =
              [kind |-> "returned", isError |-> TRUE,
               text |-> <<"Error:", "HTTP", "503:", "Service", "Unavailable">>]

\* what the network did to an attempt, without the time it was given
Net(o) == [kind |-> o.kind, res |-> o.res, err |-> o.err]
NetOutcomes(r) == [i \in DOMAIN r.outcomes |-> Net(r.outcomes[i])]

\* the result a call ends with when o is the outcome of its last attempt
ResultOf(o) ==
    IF o.kind = "response"
      THEN IF o.res.status \in 200..299
             THEN IF o.res.body.parses THEN Returned(o.res.body.data)
                                       ELSE Thrown(ParseError)
             ELSE Thrown(Err("Error", MessageOf(o.res)))
      ELSE Thrown(AsError(o.err))

\* C21: with two or more calls in flight on one client in any interleaving,
\* each call makes at most 2 attempts, and its retry decisions and its final
\* result are a function of the outcomes of its own attempts: two calls
\* whose attempts had the same outcomes have made the same decisions and
\* have the same result, and a finished call's result is the one its own
\* last outcome gives.
C21_CallsAreIndependent ==
    /\ \A c \in Slots :
          /\ call[c].fetchCalls <= 2
          /\ call[c].delays <= 1
          /\ call[c].pc = "done" => call[c].result = ResultOf(Last(call[c]))
    /\ \A c, d \in Slots :
          NetOutcomes(call[c]) = NetOutcomes(call[d]) =>
              /\ call[c].delays = call[d].delays
              /\ call[c].lastError = call[d].lastError
              /\ call[c].result = call[d].result
              /\ call[c].pc = call[d].pc =>
                    /\ call[c].attempt = call[d].attempt
                    /\ call[c].fetchCalls = call[d].fetchCalls

\* one call waits for its retry after a 503 while the other, retried after
\* a transport failure, has its second attempt in flight
C21_Witness ==
    \E c, d \in Slots :
        /\ c # d
        /\ call[c].pc = "delay"
        /\ Len(call[c].outcomes) = 1
        /\ Is503(call[c].outcomes[1])
        /\ call[d].pc = "fetching"
        /\ call[d].fetchCalls = 2
        /\ call[d].outcomes[1].kind = "reject"

\* C22: when TRACKFUSION_API_KEY is absent from process.env as the module
\* body reads it (neither the environment nor the .env file that dotenv
\* loads holds it), the process writes its diagnostic to stderr and exits
\* with a status other than 0, and it does so with no client constructed,
\* no server created or connected and no request made.
C22_ExitsWithoutKey ==
    (process.pc \notin {"none", "start", "loaded"}
       /\ process.env.TRACKFUSION_API_KEY = JsUndefined) =>
        /\ process.pc = "exited"
        /\ process.exitCode # 0
        /\ process.stderr = <<KEY_REQUIRED>>
        /\ client = NoClient
        /\ process.server = "none"
        /\ \A c \in Slots : call[c] = IdleCall

C22_Witness ==
    /\ process.pc = "exited"
    /\ process.environ.TRACKFUSION_API_KEY = JsUndefined
    /\ process.dotfile.TRACKFUSION_API_KEY = JsUndefined
    /\ process.exitCode = 1
    /\ process.stderr = <<KEY_REQUIRED>>

\* a call that has just entered request(): nothing of an earlier call is left
Fresh(r) ==
    /\ r.attempt = 0
    /\ r.fetchCalls = 1
    /\ r.delays = 0
    /\ r.lastError = NoError
    /\ r.outcomes = <<>>
    /\ r.result = NoResult
    /\ Len(r.sent) = 1
    /\ r.signalRemaining = client.timeoutMs

\* C23: no step of a call, whether the call succeeds, fails or is retried,
\* changes the client (apiKey, baseUrl, timeoutMs); a call issued after a
\* call has ended starts as on a new client, with nothing left of the earlier
\* one, and a call that follows a failed call has its own 2 attempts: its
\* first 503 is retried and it ends with the result of its own last attempt.
C23_ClientUntouched ==
    /\ [][/\ client' = client
          /\ clientConfig' = clientConfig
          /\ \A c \in Slots :
                (call[c].pc = "done" /\ call'[c].pc # "done") => Fresh(call'[c])]_vars
    /\ [](\A c \in Slots :
            LET r == call[c] IN
            /\ client = Constructor(clientConfig)
            /\ r.prior = "err" =>
                  /\ r.fetchCalls <= 2
                  /\ (Len(r.outcomes) = 1 /\ Is503(r.outcomes[1])) =>
                        Retrying(r) /\ r.delays = 1
                  /\ r.pc = "done" => r.result = ResultOf(Last(r)))

\* a call issued after a failed call has itself been retried and has failed
C23_Witness ==
    \E c \in Slots :
        /\ call[c].prior = "err"
        /\ call[c].pc = "done"
        /\ call[c].fetchCalls = 2
        /\ call[c].result.kind = "err"
        /\ client = Constructor(clientConfig)

\* the delay and the second attempt in time: a second attempt starts only
\* when RETRY_DELAY_MS have passed in the one delay of its call, and a call
\* that makes no second attempt has no delay
DelayBeforeRetry(r) ==
    /\ r.delays <= 1
    /\ r.fetchCalls = 2 => r.delays = 1 /\ r.waited = RETRY_DELAY_MS
    /\ r.pc = "delay" =>
          /\ r.fetchCalls = 1
          /\ r.delays = 1
          /\ r.waited = RETRY_DELAY_MS - r.delayRemaining
    /\ (r.pc = "done" /\ r.fetchCalls = 1) => r.delays = 0

\* a 503, or a rejection of fetch() that is not the abort of the signal
IsRetryable(o) == Is503(o) \/ o.kind = "reject"

\* C24: a second attempt starts only after the one delay of RETRY_DELAY_MS
\* of its call has passed, that delay follows a first attempt that ended
\* with a 503 or a transport failure, and a call that is not retried has no
\* delay.
C24_DelayOnceAfterRetryable ==
    \A c \in Slots :
        LET r == call[c] IN
        /\ DelayBeforeRetry(r)
        /\ r.delays = 1 => IsRetryable(r.outcomes[1])

\* the part of C24 about time alone
C24_DelayBeforeSecondAttempt ==
    \A c \in Slots : DelayBeforeRetry(call[c])

\* C25: a first attempt that fetch() rejects with anything but the abort of
\* the signal is followed, after one delay, by a second attempt, whatever
\* the text of the rejection's message.
C25_RetryWhateverTheMessage ==
    \A c \in Slots :
        LET r == call[c] IN
        (Len(r.outcomes) >= 1 /\ r.outcomes[1].kind = "reject") =>
            /\ r.delays = 1
            /\ Len(r.outcomes) = 1 => Retrying(r)
            /\ r.pc = "done" => r.fetchCalls = 2

\* C26: when fetch() rejects on the first attempt with a failure that is
\* retried and rejects again on the second, the call has made exactly 2
\* attempts with one delay, makes no third, and throws the error of the
\* second rejection (as an Error).
C26_SecondFailureSurfaces ==
    \A c \in Slots :
        LET r == call[c] IN
        (/\ Len(r.outcomes) = 2
         /\ r.outcomes[1].kind = "reject"
         /\ r.outcomes[2].kind = "reject") =>
            /\ r.pc = "done"
            /\ r.fetchCalls = 2
            /\ r.delays = 1
            /\ r.result = Thrown(AsError(r.outcomes[2].err))

C26_Witness ==
    \E c \in Slots :
        LET r == call[c] IN
        /\ Len(r.outcomes) = 2
        /\ r.outcomes[1].err.message = <<"fetch", "failed">>
        /\ r.outcomes[2].kind = "reject"
        /\ r.outcomes[2].err.message = <<"getaddrinfo", "ENOTFOUND", "x">>
        /\ r.result.kind = "err"
        /\ r.result.error.message = <<"getaddrinfo", "ENOTFOUND", "x">>

\* a 503 followed by a rejection of fetch(), or the reverse
Mixed(r) ==
    /\ Len(r.outcomes) = 2
    /\ \/ Is503(r.outcomes[1]) /\ r.outcomes[2].kind = "reject"
       \/ r.outcomes[1].kind = "reject" /\ Is503(r.outcomes[2])

\* C28: a 503 and a transport failure, in either order, use up the same
\* single retry: the call has made exactly 2 attempts with one delay and is
\* over; and every call that fails after 2 attempts throws the error its
\* second attempt gave, not the first's.
C28_OneBudgetSecondErrorSurfaces ==
    \A c \in Slots :
        LET r == call[c] IN
        /\ Mixed(r) =>
              /\ r.pc = "done"
              /\ r.fetchCalls = 2
              /\ r.delays = 1
              /\ r.result.kind = "err"
        /\ (r.pc = "done" /\ r.fetchCalls = 2 /\ r.result.kind = "err") =>
              r.result = ResultOf(r.outcomes[2])

C28_Witness ==
    \E c \in Slots :
        LET r == call[c] IN
        /\ Mixed(r)
        /\ r.outcomes[1].kind = "reject"
        /\ r.outcomes[2].res.body = Unparseable
        /\ r.outcomes[2].res.statusText = <<"Error">>
        /\ r.result = Thrown(Err("Error", <<"HTTP", "503:", "Error">>))

\* C29: the second fetch of a call is given the URL, the method, the
\* headers and the body the first was given.
C29_RetrySendsSameRequest ==
    \A c \in Slots :
        LET r == call[c] IN
        /\ Len(r.sent) = r.fetchCalls
        /\ Len(r.sent) = 2 => r.sent[2] = r.sent[1]

C29_Witness ==
    \E c \in Slots :
        LET r == call[c] IN
        /\ Len(r.sent) = 2
        /\ r.sent[2].method = "PATCH"
        /\ r.sent[2].body = <<"{", "}">>
        /\ r.sent[2].url = <<"https://x", "/tasks/", "t1">>
        /\ "Authorization" \in Keys(r.sent[2].headers)

\* the update tools and the arguments each takes besides its id
UpdateTools ==
    {"update_task", "update_habit", "update_item", "toggle_journal_todo", "update_person"}
UpdateArgs ==
    {"title", "name", "isCompleted", "dueDate", "endDate", "replacementDate", "birthday",
     "linkedFriendUserId", "linkedFriendName"}

\* the body holds the argument e as the host passed it
Carries(body, e) ==
    \/ Includes(body, JsonEntry(e) \o <<",">>)
    \/ Includes(body, JsonEntry(e) \o <<"}">>)

\* the PATCH body of the request an update tool has sent holds every
\* argument the host passed, null as null, and no other key
BodyIsArguments(r) ==
    LET body == r.sent[1].body IN
    /\ r.sent[1].method = "PATCH"
    /\ \A i \in DOMAIN r.tool.args :
          /\ Carries(body, r.tool.args[i])
          /\ r.tool.args[i][2] = JsNull => HasNull(body, r.tool.args[i][1])
    /\ \A k \in UpdateArgs \ Keys(r.tool.args) : ~HasKey(body, k)

\* C27: for each of the five update tools, an argument the host passes as
\* null is in the PATCH body as that key with null, every other argument it
\* passes is in the body with its value, and an argument it does not pass
\* is not in the body.
C27_NullReachesBody ==
    \A c \in Slots :
        LET r == call[c] IN
        (r.tool.name \in UpdateTools /\ Len(r.sent) >= 1) => BodyIsArguments(r)

\* C27 without the linkedFriend arguments of update_person
C27_ButLinkedFriend ==
    \A c \in Slots :
        LET r == call[c] IN
        (/\ r.tool.name \in UpdateTools
         /\ Len(r.sent) >= 1
         /\ Keys(r.tool.args) \cap {"linkedFriendUserId", "linkedFriendName"} = {}) =>
            BodyIsArguments(r)

\* C30: when every fetch() settles (with a response, a transport failure or
\* the abort of the signal) and the retry delay elapses, every call that
\* has started ends, returning or throwing, and on the way it makes at most
\* 2 attempts and waits at most once.
C30_EveryCallTerminates ==
    /\ [](\A c \in Slots : call[c].fetchCalls <= 2 /\ call[c].delays <= 1)
    /\ \A c \in Slots :
          (call[c].pc \in {"fetching", "delay"})
            ~> (call[c].pc = "done" /\ call[c].result.kind \in {"ok", "err"})

\* a call that has ended on the abort of its second attempt
C30_Witness ==
    \E c \in Slots :
        LET r == call[c] IN
        /\ r.pc = "done"
        /\ r.fetchCalls = 2
        /\ r.delays = 1
        /\ r.waited = RETRY_DELAY_MS
        /\ r.outcomes[2].kind = "abort"
        /\ r.result.kind = "err"

====
